---- MODULE Spec2Model ----
(***************************************************************************)
(* Phase 1 of the importer (extrator_drive.py with drive_utils.py): the    *)
(* resumable extraction pipeline.  A run loads the task ledger or walks    *)
(* the remote tree, creates the local directories, processes the tasks in  *)
(* ledger order (skip or transfer with bounded retry), saves the ledger,   *)
(* writes the backlog, verifies the downloads and packs a backup.          *)
(*                                                                         *)
(* A Python str is a sequence of characters.  A character is a TLA+        *)
(* string: one ASCII character, the non-ASCII letter "é", or a run of      *)
(* plain ASCII letters that no operation of the program looks inside       *)
(* (a dictionary key, a status word, a MIME type), written as one symbol.  *)
(* A file's content is a sequence of bytes; an ASCII character is its own  *)
(* byte and "é" is the two bytes "C3" "A9" of its UTF-8 encoding.          *)
(***************************************************************************)
EXTENDS Integers, Sequences, FiniteSets, TLC

----------------------------------------------------------------------------
(* Strings *)

Str(s) == <<s>>

Max2(a, b) == IF a >= b THEN a ELSE b

\* str.rfind(c), 1-based; 0 when c does not occur (Python's -1).
RFind(p, c) ==
  LET hits == {i \in 1..Len(p) : p[i] = c}
  IN  IF hits = {} THEN 0 ELSE CHOOSE i \in hits : \A j \in hits : j <= i

\* str.replace(a, b) for single characters a and b.
Replace(s, a, b) == [i \in 1..Len(s) |-> IF s[i] = a THEN b ELSE s[i]]

\* s[:n] for n >= 0, and for n < 0 (Python counts a negative bound from the end).
Slice(s, n) ==
  IF n >= 0 THEN SubSeq(s, 1, IF n < Len(s) THEN n ELSE Len(s))
  ELSE SubSeq(s, 1, Max2(Len(s) + n, 0))

RECURSIVE Flatten(_)
\* The concatenation of a sequence of sequences, by halves.
Flatten(ss) ==
  IF Len(ss) = 0 THEN <<>>
  ELSE IF Len(ss) = 1 THEN ss[1]
  ELSE LET h == Len(ss) \div 2
       IN  Flatten(SubSeq(ss, 1, h)) \o Flatten(SubSeq(ss, h + 1, Len(ss)))

Sep == "\\"
AltSep == "/"
ExtSep == "."

IsSep(c) == c = Sep \/ c = AltSep

\* os.path.splitext (ntpath: the program writes \\?\ long paths): the extension
\* starts at the last dot of the last component, unless only dots precede it there.
splitext(p) ==
  LET sepIndex == Max2(RFind(p, Sep), RFind(p, AltSep))
      dotIndex == RFind(p, ExtSep)
  IN  IF dotIndex > sepIndex
         /\ \E k \in (sepIndex + 1)..(dotIndex - 1) : p[k] # ExtSep
      THEN <<SubSeq(p, 1, dotIndex - 1), SubSeq(p, dotIndex, Len(p))>>
      ELSE <<p, <<>>>>

\* os.path.join(a, b) for a component b that holds no separator and no drive.
join(a, b) ==
  IF a = <<>> THEN b
  ELSE IF IsSep(a[Len(a)]) THEN a \o b
  ELSE a \o <<Sep>> \o b

\* os.path.dirname: the head before the last separator, trailing separators dropped
\* unless the head is nothing but separators.
dirname(p) ==
  LET i    == Max2(RFind(p, Sep), RFind(p, AltSep))
      head == SubSeq(p, 1, i)
      keep == {k \in 1..Len(head) : ~IsSep(head[k])}
  IN  IF keep = {} THEN head
      ELSE SubSeq(head, 1, CHOOSE k \in keep : \A j \in keep : j <= k)

----------------------------------------------------------------------------
(* Name Sanitizer: drive_utils._sanitize_path_component *)

WhiteSpace == {" ", "\t", "\n", "\r"}

invalid_os_chars == {"/", "\\", ":", "*", "?", "\"", "<", ">", "|"}

max_len == 150

HashLen == 8

HashRoom == 9

HexDigits == <<"0", "1", "2", "3", "4", "5", "6", "7",
               "8", "9", "a", "b", "c", "d", "e", "f">>

\* The characters names are made of, in a fixed order that gives each a code.
Alphabet == <<"a", "b", "t", "x", ".", " ", "\t", "\n", "\r", "/", "\\", ":",
              "*", "?", "\"", "<", ">", "|", "-", "_", "é">>

Code(c) ==
  IF \E i \in 1..Len(Alphabet) : Alphabet[i] = c
  THEN CHOOSE i \in 1..Len(Alphabet) : Alphabet[i] = c
  ELSE 0

RECURSIVE Digest(_, _, _)
\* One hexadecimal digit's worth of digest: the characters of the name weighed by
\* their code, those at the positions congruent to k (mod 8) counted twice.
Digest(name, k, c) ==
  IF c > Len(Alphabet) THEN k
  ELSE LET all  == {i \in 1..Len(name) : name[i] = Alphabet[c]}
           mine == {i \in all : i % HashLen = k % HashLen}
       IN  (c * (Cardinality(all) + Cardinality(mine)) + Digest(name, k, c + 1)) % 16

\* hashlib.md5(name.encode('utf-8')).hexdigest()[:8]: eight hexadecimal digits that
\* depend on nothing but the name (the digest function itself is the library's).
hash_suffix(name) ==
  [k \in 1..HashLen |-> HexDigits[Digest(name, k, 1) + 1]]

\* name.replace('\n', ' ').replace('\r', ' ')
replace_newlines(name) ==
  [i \in 1..Len(name) |-> IF name[i] \in {"\n", "\r"} THEN " " ELSE name[i]]

\* re.sub(r'\s+', ' ', s): the first character of a run of whitespace becomes a
\* space and the rest of the run goes.
collapse_runs(s) ==
  Flatten([i \in 1..Len(s) |->
             IF s[i] \notin WhiteSpace THEN <<s[i]>>
             ELSE IF i = 1 \/ s[i - 1] \notin WhiteSpace THEN <<" ">>
             ELSE <<>>])

\* str.strip()
strip(s) ==
  IF \A i \in 1..Len(s) : s[i] \in WhiteSpace THEN <<>>
  ELSE SubSeq(s, CHOOSE i \in 1..Len(s) :
                   s[i] \notin WhiteSpace /\ \A j \in 1..(i - 1) : s[j] \in WhiteSpace,
                 CHOOSE i \in 1..Len(s) :
                   s[i] \notin WhiteSpace /\ \A j \in (i + 1)..Len(s) : s[j] \in WhiteSpace)

collapse_whitespace(name) == strip(collapse_runs(replace_newlines(name)))

\* The cleaned form: whitespace collapsed, each forbidden character made a dash.
cleanup(name) ==
  LET s == collapse_whitespace(name)
  IN  [i \in 1..Len(s) |-> IF s[i] \in invalid_os_chars THEN "-" ELSE s[i]]

\* The sanitizer with the length test strict: a cleaned name of exactly max_len
\* characters is cut as well.
sanitize_path_component_StrictLimit(name) ==
  LET safe_name == cleanup(name)
  IN  IF Len(safe_name) < max_len THEN safe_name
      ELSE LET file_root == splitext(safe_name)[1]
               file_ext  == splitext(safe_name)[2]
               available_len_for_root == max_len - Len(file_ext) - HashRoom
               truncated_root == Slice(file_root, available_len_for_root)
           IN  truncated_root \o <<"_">> \o hash_suffix(name) \o file_ext

sanitize_path_component(name) ==
  LET safe_name == cleanup(name)
  IN  IF Len(safe_name) <= max_len THEN safe_name
      ELSE LET file_root == splitext(safe_name)[1]
               file_ext  == splitext(safe_name)[2]
               available_len_for_root == max_len - Len(file_ext) - HashRoom
               truncated_root == Slice(file_root, available_len_for_root)
           IN  truncated_root \o <<"_">> \o hash_suffix(name) \o file_ext

----------------------------------------------------------------------------
(* Python values: None, str, list and dict (an ordered sequence of key/value   *)
(* pairs with distinct keys), the shapes the ledger is made of.                *)

PyNone == <<"None">>
PyStr(s) == <<"str", s>>
PyList(xs) == <<"list", xs>>
PyDict(ps) == <<"dict", ps>>

IsNone(v) == v[1] = "None"
IsStr(v) == v[1] = "str"
IsList(v) == v[1] = "list"
IsDict(v) == v[1] = "dict"

\* The characters of a str, the items of a list, the pairs of a dict.
Items(v) == v[2]

\* Python's truth value: None and the empty str, list and dict are false.
Truthy(v) == ~IsNone(v) /\ Len(Items(v)) > 0

\* key in d
Has(d, key) == \E i \in 1..Len(Items(d)) : Items(d)[i][1] = key

\* d[key]
Get(d, key) ==
  Items(d)[CHOOSE i \in 1..Len(Items(d)) : Items(d)[i][1] = key][2]

\* d.get(key, default)
GetOr(d, key, default) == IF Has(d, key) THEN Get(d, key) ELSE default

\* d[key] = value: an existing key keeps its place, a new key goes last.
Put(d, key, value) ==
  IF Has(d, key)
  THEN PyDict([i \in 1..Len(Items(d)) |->
                 IF Items(d)[i][1] = key THEN <<key, value>> ELSE Items(d)[i]])
  ELSE PyDict(Append(Items(d), <<key, value>>))

----------------------------------------------------------------------------
(* The file encoding: open(..., encoding='utf-8') *)

NonAscii == "é"
LeadByte == "C3"
ContByte == "A9"

utf8_encode_char(c) == IF c = NonAscii THEN <<LeadByte, ContByte>> ELSE <<c>>

\* str -> bytes
utf8_encode(s) == Flatten([i \in 1..Len(s) |-> utf8_encode_char(s[i])])

\* The bytes decode unless a lead byte lacks its continuation byte or a
\* continuation byte its lead byte (UnicodeDecodeError).
utf8_valid(b) ==
  /\ \A i \in 1..Len(b) : b[i] = LeadByte => (i < Len(b) /\ b[i + 1] = ContByte)
  /\ \A i \in 1..Len(b) : b[i] = ContByte => (i > 1 /\ b[i - 1] = LeadByte)

utf8_decode_byte(c) ==
  IF c = ContByte THEN <<>> ELSE IF c = LeadByte THEN <<NonAscii>> ELSE <<c>>

\* bytes -> str, for bytes that decode
utf8_decode(b) == Flatten([i \in 1..Len(b) |-> utf8_decode_byte(b[i])])

----------------------------------------------------------------------------
(* json.dump(state, f, indent=4, ensure_ascii=False) *)

Quote == "\""
Backslash == "\\"

indent == 4

\* The escape table without the backslash.
json_escape_char_KeepsBackslash(c) ==
  IF c = Quote THEN <<Backslash, Quote>>
  ELSE IF c = "\n" THEN <<Backslash, "n">>
  ELSE IF c = "\r" THEN <<Backslash, "r">>
  ELSE IF c = "\t" THEN <<Backslash, "t">>
  ELSE <<c>>

\* json.encoder.ESCAPE_DCT, for the characters of the model.
json_escape_char(c) ==
  IF c = Quote THEN <<Backslash, Quote>>
  ELSE IF c = Backslash THEN <<Backslash, Backslash>>
  ELSE IF c = "\n" THEN <<Backslash, "n">>
  ELSE IF c = "\r" THEN <<Backslash, "r">>
  ELSE IF c = "\t" THEN <<Backslash, "t">>
  ELSE <<c>>

\* json.encoder.py_encode_basestring
json_encode_string(s) == <<Quote>> \o Flatten([i \in 1..Len(s) |-> json_escape_char(s[i])]) \o <<Quote>>

\* '\n' + ' ' * (indent * level)
newline_indent(level) == <<"\n">> \o [i \in 1..(indent * level) |-> " "]

RECURSIVE json_dumps_at(_, _)
\* json.encoder._make_iterencode: the text of the value v at nesting depth level.
json_dumps_at(v, level) ==
  IF IsNone(v) THEN <<"null">>
  ELSE IF IsStr(v) THEN json_encode_string(Items(v))
  ELSE IF Len(Items(v)) = 0 THEN (IF IsList(v) THEN <<"[", "]">> ELSE <<"{", "}">>)
  ELSE LET n    == Len(Items(v))
           item(i) ==
             (IF i = 1 THEN <<>> ELSE <<",">>)
             \o newline_indent(level + 1)
             \o (IF IsList(v) THEN json_dumps_at(Items(v)[i], level + 1)
                 ELSE json_encode_string(Items(v)[i][1]) \o <<":", " ">>
                      \o json_dumps_at(Items(v)[i][2], level + 1))
       IN  <<(IF IsList(v) THEN "[" ELSE "{")>>
           \o Flatten([i \in 1..n |-> item(i)])
           \o newline_indent(level)
           \o <<(IF IsList(v) THEN "]" ELSE "}")>>

json_dumps(v) == json_dumps_at(v, 0)

----------------------------------------------------------------------------
(* json.load(f): json.decoder, reading the text t from the 1-based index i.   *)
(* A result is [ok, val, end]: the value read and the index after it, or      *)
(* ok = FALSE for JSONDecodeError.                                            *)

JsonWs == {" ", "\t", "\n", "\r"}

EndOfText == "EOF"

At(t, i) == IF i >= 1 /\ i <= Len(t) THEN t[i] ELSE EndOfText

Fail == [ok |-> FALSE, val |-> PyNone, end |-> 0]

Ok(v, e) == [ok |-> TRUE, val |-> v, end |-> e]

\* json.decoder.WHITESPACE.match(t, i).end()
SkipWs(t, i) ==
  LET rest == {j \in i..Len(t) : t[j] \notin JsonWs}
  IN  IF rest = {} THEN Max2(i, Len(t) + 1)
      ELSE CHOOSE j \in rest : \A k \in rest : j <= k

\* Inside a string that starts at from: the character at j follows an odd run of
\* backslashes, so it is the second character of an escape.
Escaped(t, from, j) ==
  /\ j > from
  /\ t[j - 1] = Backslash
  /\ LET run == CHOOSE r \in 1..(j - from) :
                  /\ \A k \in 1..r : t[j - k] = Backslash
                  /\ (r = j - from \/ t[j - r - 1] # Backslash)
     IN  run % 2 = 1

\* json.decoder.BACKSLASH
Unescape(c) ==
  IF c = "n" THEN "\n"
  ELSE IF c = "r" THEN "\r"
  ELSE IF c = "t" THEN "\t"
  ELSE c

EscapeLetters == {Quote, Backslash, "/", "n", "r", "t"}

ControlChars == {"\n", "\r", "\t"}

\* json.decoder.py_scanstring, strict: the string whose opening quote is at from - 1.
scanstring(t, from) ==
  LET closes == {j \in from..Len(t) : t[j] = Quote /\ ~Escaped(t, from, j)}
  IN  IF closes = {} THEN Fail
      ELSE LET close == CHOOSE j \in closes : \A k \in closes : j <= k
               body  == from..(close - 1)
           IN  IF \/ \E k \in body : t[k] \in ControlChars
                  \/ \E k \in body : /\ Escaped(t, from, k)
                                     /\ t[k] \notin EscapeLetters
               THEN Fail
               ELSE Ok(PyStr(Flatten(
                      [n \in 1..(close - from) |->
                         LET k == from + n - 1
                         IN  IF Escaped(t, from, k) THEN <<Unescape(t[k])>>
                             ELSE IF t[k] = Backslash THEN <<>>
                             ELSE <<t[k]>>])),
                      close + 1)

RECURSIVE PutAll(_, _, _)
\* dict(pairs): a repeated key keeps its first place and takes its last value.
PutAll(d, pairs, i) ==
  IF i > Len(pairs) THEN d
  ELSE PutAll(Put(d, pairs[i][1], pairs[i][2]), pairs, i + 1)

RECURSIVE scan_once(_, _)
RECURSIVE JSONArray(_, _, _)
RECURSIVE JSONObject(_, _, _)

\* json.scanner.py_make_scanner._scan_once, for strings, null, arrays and objects.
scan_once(t, i) ==
  LET c == At(t, i)
  IN  IF c = Quote THEN scanstring(t, i + 1)
      ELSE IF c = "null" THEN Ok(PyNone, i + 1)
      ELSE IF c = "[" THEN
        (IF At(t, SkipWs(t, i + 1)) = "]"
         THEN Ok(PyList(<<>>), SkipWs(t, i + 1) + 1)
         ELSE JSONArray(t, SkipWs(t, i + 1), <<>>))
      ELSE IF c = "{" THEN
        (IF At(t, SkipWs(t, i + 1)) = "}"
         THEN Ok(PyDict(<<>>), SkipWs(t, i + 1) + 1)
         ELSE JSONObject(t, SkipWs(t, i + 1), <<>>))
      ELSE Fail

\* json.decoder.JSONArray: the items from index i on, after those of acc.
JSONArray(t, i, acc) ==
  LET v == scan_once(t, i)
  IN  IF ~v.ok THEN Fail
      ELSE LET k == SkipWs(t, v.end)
           IN  IF At(t, k) = "]" THEN Ok(PyList(Append(acc, v.val)), k + 1)
               ELSE IF At(t, k) # "," THEN Fail
               ELSE JSONArray(t, SkipWs(t, k + 1), Append(acc, v.val))

\* json.decoder.JSONObject: the pairs from index i on, after those of acc.
JSONObject(t, i, acc) ==
  IF At(t, i) # Quote THEN Fail
  ELSE LET key == scanstring(t, i + 1)
       IN  IF ~key.ok THEN Fail
           ELSE LET k == SkipWs(t, key.end)
                IN  IF At(t, k) # ":" THEN Fail
                    ELSE LET v == scan_once(t, SkipWs(t, k + 1))
                         IN  IF ~v.ok THEN Fail
                             ELSE LET m  == SkipWs(t, v.end)
                                      ps == Append(acc, <<Items(key.val), v.val>>)
                                  IN  IF At(t, m) = "}"
                                      THEN Ok(PutAll(PyDict(<<>>), ps, 1), m + 1)
                                      ELSE IF At(t, m) # "," THEN Fail
                                      ELSE JSONObject(t, SkipWs(t, m + 1), ps)

\* json.loads: one value, with nothing but whitespace around it.
json_loads(t) ==
  LET r == scan_once(t, SkipWs(t, 1))
  IN  IF r.ok /\ SkipWs(t, r.end) = Len(t) + 1 THEN r ELSE Fail

----------------------------------------------------------------------------
(* The remote drive and the Remote Tree Walker: drive_utils.get_drive_file_inventory *)

MimeFolder == "application/vnd.google-apps.folder"
MimeShortcut == "application/vnd.google-apps.shortcut"
MimeDocument == "application/vnd.google-apps.document"
MimePlain == "text/plain"

ignored_mime_types == {Str(MimeShortcut)}

\* 'google-apps' in mimeType, for the MIME types of the model.
has_google_apps(mime) ==
  mime \in {Str(MimeFolder), Str(MimeShortcut), Str(MimeDocument)}

pendente == PyStr(Str("pendente"))
concluido == PyStr(Str("concluido"))
ignorado == PyStr(Str("ignorado"))
falha == PyStr(Str("falha"))
sucesso == PyStr(Str("sucesso"))

K_id == Str("id")
K_original_name == Str("original_name")
K_safe_name == Str("safe_name")
K_relative_path == Str("relative_path")
K_md5Checksum == Str("md5Checksum")
K_mimeType == Str("mimeType")
K_status == Str("status")

RootFolder == "root"

Item(id, name, mime, md5) ==
  [id |-> Str(id), name |-> name, mimeType |-> Str(mime), md5Checksum |-> md5]

\* The remote tree: for each folder id the pages its listing answers with.  The
\* root holds a folder on its first page, a provider document and a shortcut on
\* its second; the folder holds one plain file.
DrivePages(folder_id) ==
  IF folder_id = Str(RootFolder) THEN
    << << Item("1", <<"d", " ">>, MimeFolder, PyNone) >>,
       << Item("2", <<"é", "\"", ".", "x">>, MimeDocument, PyNone),
          Item("3", <<"s">>, MimeShortcut, PyNone) >> >>
  ELSE IF folder_id = Str("1") THEN
    << << Item("4", <<"b", "\\", "t">>, MimePlain, PyStr(Str("md5-4"))) >> >>
  ELSE << >>

\* Every (folder, page number) request of the tree.
ListingRequests ==
  {<<Str(RootFolder), 1>>, <<Str(RootFolder), 2>>, <<Str("1"), 1>>}

\* The service object as the Walker sees it: for each folder id the pages its
\* listing answers with, and the (folder, page number) requests that raise.
Service(pages, failing) == [pages |-> pages, failing |-> failing]

\* The service of a run: the remote tree above, with the given requests raising.
drive_service(failing) ==
  Service([f \in {Str(RootFolder), Str("1")} |-> DrivePages(f)], failing)

\* The pages of a folder; a folder the tree does not describe lists nothing.
PagesOf(service, folder_id) ==
  IF folder_id \in DOMAIN service.pages THEN service.pages[folder_id] ELSE <<>>

\* The items request.execute() returned before the first page that raised:
\* the while loop handles the pages in order and the exception ends it.
ListedItems(service, folder_id) ==
  LET pages == PagesOf(service, folder_id)
      bad   == {k \in 1..Len(pages) : <<folder_id, k>> \in service.failing}
      last  == IF bad = {} THEN Len(pages)
               ELSE (CHOOSE k \in bad : \A j \in bad : k <= j) - 1
  IN  Flatten(SubSeq(pages, 1, last))

\* The task dict with the status pending whatever the type.
NewTask_AlwaysPending(item, safe_name, current_path) ==
  PyDict(<< <<K_id, PyStr(item.id)>>,
            <<K_original_name, PyStr(item.name)>>,
            <<K_safe_name, PyStr(safe_name)>>,
            <<K_relative_path, PyStr(Replace(current_path, Sep, AltSep))>>,
            <<K_md5Checksum, item.md5Checksum>>,
            <<K_mimeType, PyStr(item.mimeType)>>,
            <<K_status, pendente>> >>)

\* The task dict of a non-folder item.
NewTask(item, safe_name, current_path) ==
  PyDict(<< <<K_id, PyStr(item.id)>>,
            <<K_original_name, PyStr(item.name)>>,
            <<K_safe_name, PyStr(safe_name)>>,
            <<K_relative_path, PyStr(Replace(current_path, Sep, AltSep))>>,
            <<K_md5Checksum, item.md5Checksum>>,
            <<K_mimeType, PyStr(item.mimeType)>>,
            <<K_status, IF item.mimeType \in ignored_mime_types
                        THEN ignorado ELSE pendente>> >>)

RECURSIVE get_drive_file_inventory(_, _, _)
\* The inventory of the folder: a task per non-folder item, a folder replaced by
\* the inventory of its own listing.  When a listing request raises, what was
\* collected before the exception is what the function returns.
get_drive_file_inventory(service, folder_id, parent_path) ==
  LET items == ListedItems(service, folder_id)
  IN  Flatten([i \in 1..Len(items) |->
        LET safe_name    == sanitize_path_component(items[i].name)
            current_path == join(parent_path, safe_name)
        IN  IF items[i].mimeType = Str(MimeFolder)
            THEN get_drive_file_inventory(service, items[i].id, current_path)
            ELSE <<NewTask(items[i], safe_name, current_path)>>])

----------------------------------------------------------------------------
(* Local paths, relative to the downloads directory, with '/' between names *)

PdfExt == <<".", "p", "d", "f">>

NormPath(p) == Replace(p, Sep, AltSep)

\* main, lines 168-171 and 213-218: where the task's file is expected.
expected_path(task) ==
  LET path == Items(Get(task, K_relative_path))
  IN  IF has_google_apps(Items(GetOr(task, K_mimeType, PyStr(<<>>))))
      THEN splitext(path)[1] \o PdfExt
      ELSE path

\* main, line 182: the folder the task's file is written into.
download_dir_path(task) == dirname(Items(Get(task, K_relative_path)))

\* download_file, line 82: the file the download writes.
download_filepath(task) ==
  NormPath(join(download_dir_path(task), Items(Get(task, K_safe_name))))

\* The export path with ".pdf" added to the whole name, extension kept.
export_filepath_KeepsExtension(task) ==
  NormPath(join(download_dir_path(task), Items(Get(task, K_safe_name)) \o PdfExt))

\* export_google_doc, lines 110-111: the file the export writes.
export_filepath(task) ==
  NormPath(join(download_dir_path(task),
                splitext(Items(Get(task, K_safe_name)))[1] \o PdfExt))

\* The folder, its parent, ... up to the downloads directory <<>> itself.
WithParents(d) ==
  {SubSeq(d, 1, k - 1) : k \in {j \in 1..Len(d) : IsSep(d[j])}} \cup {d, <<>>}

----------------------------------------------------------------------------
(* Task Ledger, Verifier and Transfer Engine results, as functions of their inputs *)

NoFile == [exists |-> FALSE, bytes |-> <<>>]

FileOf(b) == [exists |-> TRUE, bytes |-> b]

\* save_state, line 40: the bytes json.dump writes through the utf-8 file object.
ledger_bytes(state) == utf8_encode(json_dumps(state))

\* save_state with the file opened for appending: the new text follows the old.
save_state_Appends(file, state) == FileOf(file.bytes \o ledger_bytes(state))

\* save_state, lines 39-40: the ledger file once the write has completed;
\* open(..., 'w') drops what the file held.
save_state(file, state) == FileOf(ledger_bytes(state))

\* load_state: what the call does with the ledger file.  raised is an exception
\* the function does not catch: the except clause names json.JSONDecodeError and
\* IOError, and the UnicodeDecodeError of f.read() is neither.
load_state(file) ==
  IF ~file.exists THEN [raised |-> FALSE, value |-> PyNone]
  ELSE IF ~utf8_valid(file.bytes) THEN [raised |-> TRUE, value |-> PyNone]
  ELSE LET r == json_loads(utf8_decode(file.bytes))
       IN  [raised |-> FALSE, value |-> IF r.ok THEN r.val ELSE PyNone]

ToSet(seq) == {seq[i] : i \in 1..Len(seq)}

\* verify_downloads with the difference taken the other way round.
verify_downloads_Reversed(drive_inventory, local_inventory) ==
  [ok |-> ToSet(local_inventory) \ ToSet(drive_inventory) = {},
   missing |-> ToSet(local_inventory) \ ToSet(drive_inventory)]

\* verify_downloads: the verdict and the files reported missing.
verify_downloads(drive_inventory, local_inventory) ==
  LET drive_set      == ToSet(drive_inventory)
      local_set      == ToSet(local_inventory)
      missing_files  == drive_set \ local_set
  IN  [ok |-> missing_files = {}, missing |-> missing_files]

DOWNLOAD_RETRIES == 3

DOWNLOAD_DELAY_SECONDS == 5

\* The success dict with the loop variable itself as the attempt count.
SuccessResult_CountsFromZero(filepath, attempt_no) ==
  [status |-> sucesso, filepath |-> PyStr(filepath), attempts |-> attempt_no,
   error |-> PyNone]

\* The dict download_file and export_google_doc return on success (lines 91, 120).
SuccessResult(filepath, attempt_no) ==
  [status |-> sucesso, filepath |-> PyStr(filepath), attempts |-> attempt_no + 1,
   error |-> PyNone]

\* The dict they return when the last attempt failed (lines 99, 128).
FailureResult(attempt_no, error_text) ==
  [status |-> falha, filepath |-> PyNone, attempts |-> attempt_no + 1,
   error |-> PyStr(error_text)]

NoResult == [status |-> PyNone, filepath |-> PyNone, attempts |-> 0, error |-> PyNone]

----------------------------------------------------------------------------
(* The run: extrator_drive.main *)

VARIABLES
  pc,                    \* where the process is in main (or how it ended)
  run,                   \* the number of runs started so far
  structure_only,        \* args.structure_only of the run
  state_file,            \* the ledger file download_state_<client>.json
  backlog_file,          \* the backlog CSV of the day
  files,                 \* the files under the downloads directory: path -> content
  dirs,                  \* the directories that exist, <<>> the downloads directory
  archives,              \* the number of backup archives made
  tasks,                 \* main's tasks
  index,                 \* the loop's index
  backlog_records,       \* main's backlog_records
  attempt,               \* the Transfer Engine's loop variable
  error_message,         \* the Transfer Engine's error_message
  result,                \* the dict the Transfer Engine returned
  drive_inventory_paths, \* main's drive_inventory_paths
  is_download_complete,  \* main's is_download_complete
  missing_files,         \* the paths verify_downloads logged as missing
  transfers,             \* history: the indexes the Transfer Engine was called for
  attempt_log,           \* history: the attempts of the current call, in order
  slept,                 \* history: the time slept in the current call
  walks,                 \* history: the Walker calls of the run
  raised_at,             \* history: the function an uncaught exception left
  loop_start,            \* history: tasks and ledger file when the loop began
  idle_passes,           \* history: passes in a row that began all completed
  verified,              \* history: verify_downloads has returned in this run
  backup_calls,          \* history: the create_backup calls of the run
  crashes,               \* the number of times the process was killed
  h_pc,                  \* the harness of the function checks: its step,
  h_in,                  \* its input
  h_out                  \* and what the functions returned

persistent == <<state_file, backlog_file, files, dirs, archives>>
memory == <<tasks, index, backlog_records, attempt, error_message, result,
            drive_inventory_paths, is_download_complete, missing_files>>
history == <<transfers, attempt_log, slept, walks, raised_at, loop_start,
             idle_passes, verified, backup_calls>>
harness == <<h_pc, h_in, h_out>>
vars == <<pc, run, structure_only, persistent, memory, history, crashes,
          harness>>

MaxRuns == 3
MaxCrashes == 1

\* str(e) of the exception the attempt with loop variable attempt_no raises: every
\* attempt has an error text of its own.
ErrorText(attempt_no) == <<"error of attempt", attempt_no + 1>>

Other == <<"other">>
Partial(id) == <<"partial", id>>
Complete(id) == <<"complete", id>>

Ended == {"idle", "done", "aborted", "raised", "crashed"}

\* The paths the tasks of the full inventory expect their files at.
KnownPaths ==
  LET inv == get_drive_file_inventory(drive_service({}), Str(RootFolder), <<>>)
  IN  {expected_path(inv[i]) :
         i \in {j \in 1..Len(inv) : Get(inv[j], K_status) # ignorado}}

\* A ledger file a first run can find that no run wrote: one that is no JSON.
ForeignLedgers == {FileOf(<<"[", "{">>)}

Quiet ==
  /\ tasks = PyNone
  /\ index = 0
  /\ backlog_records = <<>>
  /\ attempt = 0
  /\ error_message = PyNone
  /\ result = NoResult
  /\ drive_inventory_paths = <<>>
  /\ is_download_complete = FALSE
  /\ missing_files = {}
  /\ transfers = <<>>
  /\ attempt_log = <<>>
  /\ slept = 0
  /\ walks = 0
  /\ raised_at = "none"
  /\ loop_start = [tasks |-> PyNone, file |-> NoFile]
  /\ verified = FALSE
  /\ backup_calls = 0

\* The same of the next state: the memory of a process that has just started.
QuietNext ==
  /\ tasks' = PyNone
  /\ index' = 0
  /\ backlog_records' = <<>>
  /\ attempt' = 0
  /\ error_message' = PyNone
  /\ result' = NoResult
  /\ drive_inventory_paths' = <<>>
  /\ is_download_complete' = FALSE
  /\ missing_files' = {}
  /\ transfers' = <<>>
  /\ attempt_log' = <<>>
  /\ slept' = 0
  /\ walks' = 0
  /\ raised_at' = "none"
  /\ loop_start' = [tasks |-> PyNone, file |-> NoFile]
  /\ verified' = FALSE
  /\ backup_calls' = 0

HarnessOff == h_pc = "off" /\ h_in = <<>> /\ h_out = <<>>

Init ==
  /\ pc = "idle"
  /\ run = 0
  /\ structure_only = FALSE
  /\ state_file \in {NoFile} \cup ForeignLedgers
  /\ backlog_file = [exists |-> FALSE, rows |-> <<>>]
  /\ \E present \in SUBSET KnownPaths :
       /\ files = [p \in present |-> Other]
       /\ dirs = UNION {WithParents(dirname(p)) : p \in present}
  /\ archives = 0
  /\ Quiet
  /\ idle_passes = 0
  /\ crashes = 0
  /\ HarnessOff

Status(task) == Get(task, K_status)

Task(i) == Items(tasks)[i]

\* os.path.exists(local_filepath)
path_exists(p) == p \in DOMAIN files \/ p \in dirs

\* The skip rule without its resume part: a pending item is never passed over.
skips_ForgetsResume(task) == Status(task) \in {concluido, ignorado}

\* main, line 174: the item is passed over.
skips(task) ==
  \/ Status(task) \in {concluido, ignorado}
  \/ (Status(task) = pendente /\ path_exists(NormPath(expected_path(task))))

AllCompleted(ts) ==
  ~IsNone(ts) /\ \A i \in 1..Len(Items(ts)) : Status(Items(ts)[i]) = concluido

\* A run starts: the process of the previous run is gone, and with it its memory.
StartRun ==
  /\ pc \in Ended
  /\ run < MaxRuns
  /\ run' = run + 1
  /\ structure_only' \in BOOLEAN
  /\ pc' = "setup"
  /\ QuietNext
  /\ UNCHANGED <<persistent, idle_passes, crashes, harness>>

\* Somebody deletes a file of the downloads directory, between two runs or before
\* a run takes its local inventory: the paths os.path.exists and os.walk answer
\* for are the file system's, not the ledger's.
RemoveFile ==
  /\ \/ pc \in Ended /\ run \in 1..(MaxRuns - 1)
     \/ pc = "verify"
  /\ \E p \in DOMAIN files : files' = [q \in DOMAIN files \ {p} |-> files[q]]
  /\ UNCHANGED <<pc, run, structure_only, state_file, backlog_file, dirs, archives,
                 memory, history, crashes, harness>>

\* The setup with the downloads directory made before the service is tested.
main_setup_MakesDownloadsDir ==
  /\ pc = "setup"
  /\ \E service_ok \in BOOLEAN : pc' = IF service_ok THEN "load" ELSE "aborted"
  /\ dirs' = dirs \cup {<<>>}
  /\ UNCHANGED <<run, structure_only, state_file, backlog_file, files, archives,
                 memory, history, crashes, harness>>

\* main, lines 141-144: setup_google_drive_service returns a service or None.
main_setup ==
  /\ pc = "setup"
  /\ \E service_ok \in BOOLEAN : pc' = IF service_ok THEN "load" ELSE "aborted"
  /\ UNCHANGED <<run, structure_only, persistent, memory, history, crashes, harness>>

\* main, line 146: tasks = load_state(state_filepath)
main_load ==
  /\ pc = "load"
  /\ LET r == load_state(state_file)
     IN  IF r.raised
         THEN /\ pc' = "raised"
              /\ raised_at' = "load_state"
              /\ tasks' = tasks
         ELSE /\ pc' = "plan"
              /\ raised_at' = raised_at
              /\ tasks' = r.value
  /\ UNCHANGED <<run, structure_only, persistent, index, backlog_records, attempt,
                 error_message, result, drive_inventory_paths,
                 is_download_complete, missing_files, transfers, attempt_log,
                 slept, walks, loop_start, idle_passes, verified, backup_calls,
                 crashes, harness>>

\* main, lines 147-151: no tasks, so the Walker builds them and they are saved.
main_plan ==
  /\ pc = "plan"
  /\ ~Truthy(tasks)
  /\ \E failing \in {f \in SUBSET ListingRequests : Cardinality(f) <= 1} :
       tasks' = PyList(get_drive_file_inventory(drive_service(failing), Str(RootFolder), <<>>))
  /\ walks' = walks + 1
  /\ state_file' = save_state(state_file, tasks')
  /\ pc' = "mkdirs"
  /\ UNCHANGED <<run, structure_only, backlog_file, files, dirs, archives, index,
                 backlog_records, attempt, error_message, result,
                 drive_inventory_paths, is_download_complete, missing_files,
                 transfers, attempt_log, slept, raised_at, loop_start,
                 idle_passes, verified, backup_calls, crashes, harness>>

\* main, line 147: the loaded tasks are kept.
main_resume ==
  /\ pc = "plan"
  /\ Truthy(tasks)
  /\ pc' = "mkdirs"
  /\ UNCHANGED <<run, structure_only, persistent, memory, history, crashes, harness>>

\* The folders are created and the run goes on to the transfers whatever the flag.
main_mkdirs_IgnoresFlag ==
  /\ pc = "mkdirs"
  /\ LET dir_paths_to_create ==
           {dirname(Items(Get(Task(i), K_relative_path))) : i \in 1..Len(Items(tasks))}
           \ {<<>>}
     IN  dirs' = dirs \cup UNION {WithParents(d) : d \in dir_paths_to_create}
  /\ pc' = "loop"
  /\ loop_start' = [tasks |-> tasks, file |-> state_file]
  /\ UNCHANGED <<run, structure_only, state_file, backlog_file, files, archives,
                 memory, transfers, attempt_log, slept, walks, raised_at,
                 idle_passes, verified, backup_calls, crashes, harness>>

\* main, lines 153-163: the folders of the tasks are created; with --structure-only
\* the run ends here.
main_mkdirs ==
  /\ pc = "mkdirs"
  /\ LET dir_paths_to_create ==
           {dirname(Items(Get(Task(i), K_relative_path))) : i \in 1..Len(Items(tasks))}
           \ {<<>>}
     IN  dirs' = dirs \cup UNION {WithParents(d) : d \in dir_paths_to_create}
  /\ IF structure_only
     THEN pc' = "done" /\ loop_start' = loop_start
     ELSE pc' = "loop" /\ loop_start' = [tasks |-> tasks, file |-> state_file]
  /\ UNCHANGED <<run, structure_only, state_file, backlog_file, files, archives,
                 memory, transfers, attempt_log, slept, walks, raised_at,
                 idle_passes, verified, backup_calls, crashes, harness>>

InLoop == pc = "loop" /\ index < Len(Items(tasks))

\* main, lines 174-178: a completed or ignored item, or a pending one whose file is
\* there, is passed over; the pending one becomes completed.
main_skip ==
  /\ InLoop
  /\ skips(Task(index + 1))
  /\ tasks' = IF Status(Task(index + 1)) = pendente
              THEN PyList([Items(tasks) EXCEPT
                             ![index + 1] = Put(Task(index + 1), K_status, concluido)])
              ELSE tasks
  /\ index' = index + 1
  /\ UNCHANGED <<pc, run, structure_only, persistent, backlog_records, attempt,
                 error_message, result, drive_inventory_paths,
                 is_download_complete, missing_files, history, crashes, harness>>

\* The call of the Transfer Engine made for a failed item as for a pending one.
main_transfer_RetriesFailed ==
  /\ InLoop
  /\ ~skips(Task(index + 1))
  /\ Status(Task(index + 1)) \in {pendente, falha}
  /\ transfers' = Append(transfers, index + 1)
  /\ attempt' = 0
  /\ attempt_log' = <<>>
  /\ slept' = 0
  /\ pc' = "attempt"
  /\ UNCHANGED <<run, structure_only, persistent, tasks, index, backlog_records,
                 error_message, result, drive_inventory_paths,
                 is_download_complete, missing_files, walks, raised_at,
                 loop_start, idle_passes, verified, backup_calls, crashes, harness>>

\* main, lines 180-188: a pending item whose file is not there goes to the
\* Transfer Engine, export_google_doc for a provider document, download_file else.
main_transfer ==
  /\ InLoop
  /\ ~skips(Task(index + 1))
  /\ Status(Task(index + 1)) = pendente
  /\ transfers' = Append(transfers, index + 1)
  /\ attempt' = 0
  /\ attempt_log' = <<>>
  /\ slept' = 0
  /\ pc' = "attempt"
  /\ UNCHANGED <<run, structure_only, persistent, tasks, index, backlog_records,
                 error_message, result, drive_inventory_paths,
                 is_download_complete, missing_files, walks, raised_at,
                 loop_start, idle_passes, verified, backup_calls, crashes, harness>>

\* main, lines 174 and 180: an item of any other status falls through the loop body.
main_pass ==
  /\ InLoop
  /\ ~skips(Task(index + 1))
  /\ Status(Task(index + 1)) # pendente
  /\ index' = index + 1
  /\ UNCHANGED <<pc, run, structure_only, persistent, tasks, backlog_records,
                 attempt, error_message, result, drive_inventory_paths,
                 is_download_complete, missing_files, history, crashes, harness>>

\* The file the Transfer Engine writes for the task main called it for.
transfer_filepath(task) ==
  IF has_google_apps(Items(GetOr(task, K_mimeType, PyStr(<<>>))))
  THEN export_filepath(task)
  ELSE download_filepath(task)

WriteFile(p, content) ==
  [q \in DOMAIN files \cup {p} |-> IF q = p THEN content ELSE files[q]]

\* The except clause with the sleep before the test for the last attempt.
attempt_failed_SleepsFirst(err) ==
  /\ error_message' = PyStr(err)
  /\ attempt_log' = Append(attempt_log, [ok |-> FALSE, error |-> PyStr(err)])
  /\ slept' = slept + DOWNLOAD_DELAY_SECONDS
  /\ IF attempt < DOWNLOAD_RETRIES - 1
     THEN /\ attempt' = attempt + 1
          /\ pc' = "attempt"
          /\ result' = result
     ELSE /\ result' = FailureResult(attempt, err)
          /\ pc' = "result"
          /\ attempt' = attempt

\* download_file / export_google_doc, lines 92-99 / 121-128: the except clause.
attempt_failed(err) ==
  /\ error_message' = PyStr(err)
  /\ attempt_log' = Append(attempt_log, [ok |-> FALSE, error |-> PyStr(err)])
  /\ IF attempt < DOWNLOAD_RETRIES - 1
     THEN /\ slept' = slept + DOWNLOAD_DELAY_SECONDS
          /\ attempt' = attempt + 1
          /\ pc' = "attempt"
          /\ result' = result
     ELSE /\ result' = FailureResult(attempt, err)
          /\ pc' = "result"
          /\ UNCHANGED <<slept, attempt>>

\* An attempt raises before the file is opened (the request, makedirs or open).
transfer_fail_early ==
  /\ pc = "attempt"
  /\ attempt_failed(ErrorText(attempt))
  /\ UNCHANGED <<run, structure_only, persistent, tasks, index, backlog_records,
                 drive_inventory_paths, is_download_complete, missing_files,
                 transfers, walks, raised_at, loop_start, idle_passes, verified,
                 backup_calls, crashes, harness>>

\* open(long_path_aware_filepath, "wb"): the file is there, cut to nothing.
transfer_open ==
  /\ pc = "attempt"
  /\ LET task == Task(index + 1)
     IN  /\ files' = WriteFile(transfer_filepath(task), Partial(Items(Get(task, K_id))))
         /\ dirs' = dirs \cup WithParents(download_dir_path(task))
  /\ pc' = "streaming"
  /\ UNCHANGED <<run, structure_only, state_file, backlog_file, archives, memory,
                 history, crashes, harness>>

\* downloader.next_chunk() raises: the part written stays on disk.
transfer_stream_fail ==
  /\ pc = "streaming"
  /\ attempt_failed(ErrorText(attempt))
  /\ UNCHANGED <<run, structure_only, persistent, tasks, index, backlog_records,
                 drive_inventory_paths, is_download_complete, missing_files,
                 transfers, walks, raised_at, loop_start, idle_passes, verified,
                 backup_calls, crashes, harness>>

\* The stream ends: the function returns its success dict (lines 91, 120).
transfer_done ==
  /\ pc = "streaming"
  /\ LET task == Task(index + 1)
     IN  /\ files' = WriteFile(transfer_filepath(task), Complete(Items(Get(task, K_id))))
         /\ result' = SuccessResult(transfer_filepath(task), attempt)
  /\ attempt_log' = Append(attempt_log, [ok |-> TRUE, error |-> PyNone])
  /\ pc' = "result"
  /\ UNCHANGED <<run, structure_only, state_file, backlog_file, dirs, archives,
                 tasks, index, backlog_records, attempt, error_message,
                 drive_inventory_paths, is_download_complete, missing_files,
                 transfers, slept, walks, raised_at, loop_start, idle_passes,
                 verified, backup_calls, crashes, harness>>

\* str.upper() of the status words.
upper(word) ==
  IF word = sucesso THEN PyStr(Str("SUCESSO"))
  ELSE IF word = falha THEN PyStr(Str("FALHA"))
  ELSE word

\* The backlog record with the rename flag set whatever the names.
BacklogRecord_AlwaysRenamed(task, res, when) ==
  [timestamp      |-> when,
   status         |-> upper(res.status),
   drive_id       |-> Get(task, K_id),
   original_name  |-> GetOr(task, K_original_name, Get(task, K_safe_name)),
   sanitized_name |-> Get(task, K_safe_name),
   was_renamed    |-> "Sim",
   relative_path  |-> Get(task, K_relative_path),
   attempts       |-> res.attempts,
   error_message  |-> res.error,
   md5_checksum   |-> GetOr(task, K_md5Checksum, PyNone)]

\* main, lines 192-199: the backlog record of a transfer.
BacklogRecord(task, res, when) ==
  [timestamp      |-> when,
   status         |-> upper(res.status),
   drive_id       |-> Get(task, K_id),
   original_name  |-> GetOr(task, K_original_name, Get(task, K_safe_name)),
   sanitized_name |-> Get(task, K_safe_name),
   was_renamed    |-> IF GetOr(task, K_original_name, Get(task, K_safe_name))
                         # Get(task, K_safe_name)
                      THEN "Sim" ELSE "Não",
   relative_path  |-> Get(task, K_relative_path),
   attempts       |-> res.attempts,
   error_message  |-> res.error,
   md5_checksum   |-> GetOr(task, K_md5Checksum, PyNone)]

\* The end of a transfer with the ledger saved after every task.
main_record_SavesEachTask ==
  /\ pc = "result"
  /\ tasks' = PyList([Items(tasks) EXCEPT
                        ![index + 1] = Put(Task(index + 1), K_status, result.status)])
  /\ backlog_records' = Append(backlog_records, BacklogRecord(Task(index + 1), result, run))
  /\ index' = index + 1
  /\ state_file' = save_state(state_file, tasks')
  /\ pc' = "loop"
  /\ UNCHANGED <<run, structure_only, backlog_file, files, dirs, archives, attempt,
                 error_message, result, drive_inventory_paths,
                 is_download_complete, missing_files, history, crashes, harness>>

\* The end of a transfer with a failure ending the run.
main_record_AbortsOnFailure ==
  /\ pc = "result"
  /\ IF result.status = falha
     THEN /\ pc' = "aborted"
          /\ UNCHANGED <<tasks, backlog_records, index>>
     ELSE /\ tasks' = PyList([Items(tasks) EXCEPT
                                ![index + 1] = Put(Task(index + 1), K_status, result.status)])
          /\ backlog_records' = Append(backlog_records,
                                       BacklogRecord(Task(index + 1), result, run))
          /\ index' = index + 1
          /\ pc' = "loop"
  /\ UNCHANGED <<run, structure_only, persistent, attempt, error_message, result,
                 drive_inventory_paths, is_download_complete, missing_files,
                 history, crashes, harness>>

\* main, lines 190-200: the result becomes the task's status and a backlog record.
main_record ==
  /\ pc = "result"
  /\ tasks' = PyList([Items(tasks) EXCEPT
                        ![index + 1] = Put(Task(index + 1), K_status, result.status)])
  /\ backlog_records' = Append(backlog_records, BacklogRecord(Task(index + 1), result, run))
  /\ index' = index + 1
  /\ pc' = "loop"
  /\ UNCHANGED <<run, structure_only, persistent, attempt, error_message, result,
                 drive_inventory_paths, is_download_complete, missing_files,
                 history, crashes, harness>>

\* main, line 202: save_state(tasks, state_filepath) after the last task.
main_save ==
  /\ pc = "loop"
  /\ index = Len(Items(tasks))
  /\ state_file' = save_state(state_file, tasks)
  /\ idle_passes' = IF AllCompleted(loop_start.tasks) /\ Truthy(loop_start.tasks)
                    THEN idle_passes + 1 ELSE 0
  /\ pc' = "backlog"
  /\ UNCHANGED <<run, structure_only, backlog_file, files, dirs, archives, memory,
                 transfers, attempt_log, slept, walks, raised_at, loop_start,
                 verified, backup_calls, crashes, harness>>

\* main, line 206: write_backlog_csv writes the records of the pass, when there are any.
write_backlog_csv ==
  /\ pc = "backlog"
  /\ backlog_file' = IF backlog_records = <<>> THEN backlog_file
                     ELSE [exists |-> TRUE, rows |-> backlog_records]
  /\ pc' = "verify"
  /\ UNCHANGED <<run, structure_only, state_file, files, dirs, archives, memory,
                 history, crashes, harness>>

\* The expected paths with only the ignored tasks left out.
expected_inventory_KeepsFailed(ts) ==
  LET kept == SelectSeq(Items(ts), LAMBDA t : Status(t) # ignorado)
  IN  [i \in 1..Len(kept) |-> expected_path(kept[i])]

\* The expected paths with only the failed tasks left out.
expected_inventory_DropsOnlyFailed(ts) ==
  LET kept == SelectSeq(Items(ts), LAMBDA t : Status(t) # falha)
  IN  [i \in 1..Len(kept) |-> expected_path(kept[i])]

\* main, lines 208-218: the paths expected on disk.
expected_inventory(ts) ==
  LET kept == SelectSeq(Items(ts), LAMBDA t : Status(t) \notin {ignorado, falha})
  IN  [i \in 1..Len(kept) |-> expected_path(kept[i])]

\* get_local_file_inventory(downloads_dir): the files under the directory, if it is one.
get_local_file_inventory == IF <<>> \in dirs THEN DOMAIN files ELSE {}

RECURSIVE SetToSeq(_)
\* The members of S in some order (os.walk's order is the file system's).
SetToSeq(S) ==
  IF S = {} THEN <<>>
  ELSE LET p == CHOOSE q \in S : TRUE
       IN  <<p>> \o SetToSeq(S \ {p})

\* main, lines 208-221: the expected and the local paths go to verify_downloads.
main_verify ==
  /\ pc = "verify"
  /\ drive_inventory_paths' = expected_inventory(tasks)
  /\ LET v == verify_downloads(drive_inventory_paths',
                               SetToSeq(get_local_file_inventory))
     IN  /\ is_download_complete' = v.ok
         /\ missing_files' = v.missing
  /\ verified' = TRUE
  /\ pc' = "branch"
  /\ UNCHANGED <<run, structure_only, persistent, tasks, index, backlog_records,
                 attempt, error_message, result, transfers, attempt_log, slept,
                 walks, raised_at, loop_start, idle_passes, backup_calls,
                 crashes, harness>>

\* The end of main with the backup made whatever the verdict.
main_backup_Unconditional ==
  /\ pc = "branch"
  /\ backup_calls' = backup_calls + 1
  /\ archives' = IF <<>> \in dirs THEN archives + 1 ELSE archives
  /\ pc' = "done"
  /\ UNCHANGED <<run, structure_only, state_file, backlog_file, files, dirs,
                 memory, transfers, attempt_log, slept, walks, raised_at,
                 loop_start, idle_passes, verified, crashes, harness>>

\* main, lines 223-228 with create_backup: the archive is made when the verdict is
\* success, the downloads directory exists and make_archive does not raise.
main_backup ==
  /\ pc = "branch"
  /\ IF is_download_complete
     THEN /\ backup_calls' = backup_calls + 1
          /\ IF <<>> \in dirs
             THEN \E archived \in BOOLEAN :
                    archives' = IF archived THEN archives + 1 ELSE archives
             ELSE archives' = archives
     ELSE UNCHANGED <<backup_calls, archives>>
  /\ pc' = "done"
  /\ UNCHANGED <<run, structure_only, state_file, backlog_file, files, dirs,
                 memory, transfers, attempt_log, slept, walks, raised_at,
                 loop_start, idle_passes, verified, crashes, harness>>

\* The process is killed anywhere in a run; what is on disk stays.
Crash ==
  /\ pc \notin Ended
  /\ crashes < MaxCrashes
  /\ crashes' = crashes + 1
  /\ pc' = "crashed"
  /\ QuietNext
  /\ UNCHANGED <<run, structure_only, persistent, idle_passes, harness>>

\* The lengths a write that was cut short is followed at: nothing written, all
\* but the last byte, and the first byte alone of each two-byte character.
CutPoints(bytes) ==
  {0, Len(bytes) - 1} \cup {k \in 1..(Len(bytes) - 1) : bytes[k] = LeadByte}

\* The process is killed inside save_state(state), after open(..., 'w') cut the
\* file and before the text is all written: a proper prefix of the bytes is on disk.
killed_in_save(state) ==
  /\ crashes < MaxCrashes
  /\ crashes' = crashes + 1
  /\ \E k \in CutPoints(ledger_bytes(state)) :
       state_file' = FileOf(SubSeq(ledger_bytes(state), 1, k))
  /\ pc' = "crashed"
  /\ QuietNext
  /\ UNCHANGED <<run, structure_only, backlog_file, files, dirs, archives,
                 idle_passes, harness>>

\* ... in the save of a new plan (line 150)
CrashInPlanSave ==
  /\ pc = "plan"
  /\ ~Truthy(tasks)
  /\ \E failing \in {f \in SUBSET ListingRequests : Cardinality(f) <= 1} :
       killed_in_save(PyList(get_drive_file_inventory(drive_service(failing), Str(RootFolder), <<>>)))

\* ... in the save after the last task (line 202)
CrashInFinalSave ==
  /\ pc = "loop"
  /\ index = Len(Items(tasks))
  /\ killed_in_save(tasks)

Next ==
  \/ StartRun
  \/ RemoveFile
  \/ main_setup
  \/ main_load
  \/ main_plan
  \/ main_resume
  \/ main_mkdirs
  \/ main_skip
  \/ main_transfer
  \/ main_pass
  \/ transfer_fail_early
  \/ transfer_open
  \/ transfer_stream_fail
  \/ transfer_done
  \/ main_record
  \/ main_save
  \/ write_backlog_csv
  \/ main_verify
  \/ main_backup

\* Runs that are never killed.
Spec == Init /\ [][Next]_vars

NextCrash ==
  \/ Next
  \/ Crash
  \/ CrashInPlanSave
  \/ CrashInFinalSave

\* Runs of which at most MaxCrashes are killed.
SpecCrash == Init /\ [][NextCrash]_vars

----------------------------------------------------------------------------
(* Function checks: a function of the program is applied to inputs drawn from *)
(* a bounded set, with no run in progress.                                    *)

NoRun ==
  /\ pc = "idle"
  /\ run = 0
  /\ structure_only = FALSE
  /\ backlog_file = [exists |-> FALSE, rows |-> <<>>]
  /\ files = <<>>
  /\ dirs = {}
  /\ archives = 0
  /\ Quiet
  /\ idle_passes = 0
  /\ crashes = 0

RECURSIVE ListsUpTo(_, _)
\* The sequences of at most n members of S.
ListsUpTo(S, n) ==
  IF n = 0 THEN {<<>>}
  ELSE LET shorter == ListsUpTo(S, n - 1)
       IN  shorter \cup {Append(l, x) : l \in shorter, x \in S}

(* verify_downloads *)

MaxPaths == 2

VerifyPaths == {<<"a", "/", "b", ".", "t", "x", "t">>, <<"c", ".", "t", "x", "t">>,
                <<"x">>}

InitVerify ==
  /\ NoRun
  /\ state_file = NoFile
  /\ h_pc = "call"
  /\ \E expected \in ListsUpTo(VerifyPaths, MaxPaths),
        actual \in ListsUpTo(VerifyPaths, MaxPaths) :
       h_in = [expected |-> expected, actual |-> actual]
  /\ h_out = <<>>

VerifyCall ==
  /\ h_pc = "call"
  /\ h_out' = verify_downloads(h_in.expected, h_in.actual)
  /\ h_pc' = "returned"
  /\ UNCHANGED <<pc, run, structure_only, persistent, memory, history, crashes, h_in>>

SpecVerify == InitVerify /\ [][VerifyCall]_vars

(* save_state and load_state *)

MaxLedgerTasks == 2

\* Names as a drive can hold them: quotes, backslashes, line ends, tabs, letters
\* that follow a backslash, a non-ASCII letter, the word null, nothing at all.
SampleNames ==
  {<<"a", ".", "t">>, <<"é", "\"", "b">>, <<"\\", "t", "\\", "\\", "\"">>,
   <<"a", "\n", "\t", "\r", " ">>, <<"null">>, <<>>, <<"é", "\\">>}

\* Task dicts: the Walker's, with every status a run writes, and dicts whose keys
\* come in another order, are fewer, or hold None.
SampleTasks ==
  {NewTask(Item("7", name, MimePlain, PyStr(Str("md5-7"))),
           sanitize_path_component(name), sanitize_path_component(name)) :
     name \in SampleNames}
  \cup {Put(NewTask(Item("8", <<"é", ":", "x">>, MimeDocument, PyNone),
                    <<"é", "-", "x">>, <<"d", "\\", "é", "-", "x">>),
            K_status, st) : st \in {concluido, falha, ignorado, sucesso}}
  \cup {PyDict(<< <<K_status, pendente>>, <<K_id, PyNone>> >>), PyDict(<<>>)}

InitLedger ==
  /\ NoRun
  /\ state_file \in {NoFile, FileOf(ledger_bytes(PyList(<<PyDict(<<>>)>>)))}
  /\ h_pc = "save"
  /\ \E ts \in ListsUpTo(SampleTasks, MaxLedgerTasks) : h_in = PyList(ts)
  /\ h_out = <<>>

\* save_state(tasks, path)
LedgerSave ==
  /\ h_pc = "save"
  /\ state_file' = save_state(state_file, h_in)
  /\ h_out' = [saved |-> state_file']
  /\ h_pc' = "load"
  /\ UNCHANGED <<pc, run, structure_only, backlog_file, files, dirs, archives,
                 memory, history, crashes, h_in>>

\* load_state(path)
LedgerLoad ==
  /\ h_pc = "load"
  /\ h_out' = [saved |-> h_out.saved, loaded |-> load_state(state_file)]
  /\ h_pc' = "save again"
  /\ UNCHANGED <<pc, run, structure_only, persistent, memory, history, crashes, h_in>>

\* save_state(load_state(path), path)
LedgerSaveAgain ==
  /\ h_pc = "save again"
  /\ ~h_out.loaded.raised
  /\ state_file' = save_state(state_file, h_out.loaded.value)
  /\ h_pc' = "saved again"
  /\ UNCHANGED <<pc, run, structure_only, backlog_file, files, dirs, archives,
                 memory, history, crashes, h_in, h_out>>

NextLedger == LedgerSave \/ LedgerLoad \/ LedgerSaveAgain

SpecLedger == InitLedger /\ [][NextLedger]_vars

(* _sanitize_path_component *)

\* n times the character c
Run(c, n) == IF n <= 0 THEN <<>> ELSE [i \in 1..n |-> c]

LenSlack == 2

\* The starts of the sample names: blanks to strip, line ends and a tab to
\* collapse, forbidden characters, a dot inside the root.
NameHeads ==
  {<<>>, <<" ", "\t">>, <<"b", "\n", "\r", "t">>, <<"b", ":", "?", "\\">>,
   <<"b", ".", "t", " ", " ">>}

\* The lengths of the run of letters that follows: short ones and the ones about
\* max_len and max_len - 9.
BodyLens ==
  {0, 1} \cup {max_len - HashRoom - k : k \in 0..LenSlack}
         \cup {max_len - k : k \in 0..LenSlack}
         \cup {max_len + k : k \in 1..LenSlack}

\* The extensions: none, a dot alone, short ones, and the lengths about the one
\* at which max_len - len(ext) - 9 becomes negative.
NameExts ==
  {<<>>} \cup
  {<<".">> \o Run("x", m) :
     m \in {0, 1} \cup {max_len - HashRoom - 1 + k : k \in (0 - LenSlack)..LenSlack}
                  \cup {max_len + LenSlack}}

NameTails == {<<>>, <<" ">>}

LongNames ==
  {h \o Run("a", n) \o e \o t :
     h \in NameHeads, n \in BodyLens, e \in NameExts, t \in NameTails}

InitSanitize ==
  /\ NoRun
  /\ state_file = NoFile
  /\ h_pc = "call"
  /\ h_in \in LongNames
  /\ h_out = <<>>

\* _sanitize_path_component(name)
SanitizeCall ==
  /\ h_pc = "call"
  /\ h_out' = [once |-> sanitize_path_component(h_in)]
  /\ h_pc' = "returned"
  /\ UNCHANGED <<pc, run, structure_only, persistent, memory, history, crashes, h_in>>

\* _sanitize_path_component(name) a second time, and of what the first call returned
SanitizeAgain ==
  /\ h_pc = "returned"
  /\ h_out' = [once |-> h_out.once,
               twice |-> sanitize_path_component(h_in),
               again |-> sanitize_path_component(h_out.once)]
  /\ h_pc' = "returned again"
  /\ UNCHANGED <<pc, run, structure_only, persistent, memory, history, crashes, h_in>>

NextSanitize == SanitizeCall \/ SanitizeAgain

SpecSanitize == InitSanitize /\ [][NextSanitize]_vars

(* get_drive_file_inventory *)

MaxFailures == 2

\* A tree three folders deep: pages with a folder before and after files, an
\* empty page, a folder name the sanitizer changes, a document and a shortcut.
DeepDrive ==
  (Str(RootFolder) :> << << Item("f1", <<"d", " ">>, MimeFolder, PyNone) >>,
                        << Item("x1", <<"a", ".", "t">>, MimePlain, PyStr(Str("md5-1"))),
                           Item("f2", <<"e">>, MimeFolder, PyNone) >> >>)
  @@ (Str("f1") :> << << Item("x2", <<"b", "\t">>, MimePlain, PyNone) >>,
                      << Item("f3", <<"g", "/", "h">>, MimeFolder, PyNone) >>,
                      << Item("x3", <<"c">>, MimePlain, PyNone) >> >>)
  @@ (Str("f3") :> << << Item("x4", <<"é", "\"", ".", "x">>, MimeDocument, PyNone) >> >>)
  @@ (Str("f2") :> << << >>,
                      << Item("x5", <<"s">>, MimeShortcut, PyNone) >> >>)

\* A tree with a folder whose name is a blank, inside a folder.
BlankDrive ==
  (Str(RootFolder) :> << << Item("f1", <<"d">>, MimeFolder, PyNone) >> >>)
  @@ (Str("f1") :> << << Item("f2", <<" ">>, MimeFolder, PyNone) >>,
                      << Item("x1", <<"c">>, MimePlain, PyNone) >> >>)
  @@ (Str("f2") :> << << Item("x2", <<"b">>, MimePlain, PyNone) >> >>)

\* A root that lists nothing.
EmptyDrive == (Str(RootFolder) :> << << >> >>)

SampleDrives == {DeepDrive, BlankDrive, EmptyDrive, drive_service({}).pages}

\* Every (folder, page number) request of a tree.
RequestsOf(pages) ==
  UNION {{<<f, k>> : k \in 1..Len(pages[f])} : f \in DOMAIN pages}

InitWalk ==
  /\ NoRun
  /\ state_file = NoFile
  /\ h_pc = "call"
  /\ \E pages \in SampleDrives :
       \E failing \in {f \in SUBSET RequestsOf(pages) : Cardinality(f) <= MaxFailures} :
         h_in = Service(pages, failing)
  /\ h_out = <<>>

\* get_drive_file_inventory(service, folder_id)
WalkCall ==
  /\ h_pc = "call"
  /\ h_out' = get_drive_file_inventory(h_in, Str(RootFolder), <<>>)
  /\ h_pc' = "returned"
  /\ UNCHANGED <<pc, run, structure_only, persistent, memory, history, crashes, h_in>>

SpecWalk == InitWalk /\ [][WalkCall]_vars

----------------------------------------------------------------------------
(* Runs that find a ledger on disk that an earlier use of the program left *)

\* A task as the Walker makes it for a file with the given name in the folder.
LedgerTask(id, name, mime, folder) ==
  NewTask(Item(id, name, mime, PyNone), sanitize_path_component(name),
          join(folder, sanitize_path_component(name)))

\* The dict without one of its keys.
Without(d, key) == PyDict(SelectSeq(Items(d), LAMBDA pair : pair[1] # key))

\* A ledger of an earlier version, whose task in a folder has no original name
\* recorded; with it a shortcut and a document whose name was changed.
PlainLedger ==
  PyList(<< Without(LedgerTask("8", <<"k">>, MimePlain, <<"d">>), K_original_name),
            LedgerTask("3", <<"s">>, MimeShortcut, <<>>),
            LedgerTask("9", <<"é", ":", "x">>, MimeDocument, <<>>) >>)

\* A ledger of two entries of one folder that are expected at the same local
\* path: a document "r.x" and a plain file "r.pdf"; and a shortcut.
CollidingLedger ==
  PyList(<< LedgerTask("5", <<"r", ".", "x">>, MimeDocument, <<>>),
            LedgerTask("6", <<"r", ".", "p", "d", "f">>, MimePlain, <<>>),
            LedgerTask("3", <<"s">>, MimeShortcut, <<>>) >>)

\* ... and the ledger of a drive that held nothing: the empty list.
SampleLedgers == {PlainLedger, CollidingLedger, PyList(<<>>)}

\* No run was made yet here; the downloads directory does not exist.
InitResume ==
  /\ NoRun
  /\ \E ledger \in SampleLedgers : state_file = FileOf(ledger_bytes(ledger))
  /\ HarnessOff

SpecResume == InitResume /\ [][Next]_vars

----------------------------------------------------------------------------
(* Properties *)

HasTasks == IsList(tasks)

\* The loop is at a pending task whose expected local path exists.
AtPresentPending ==
  /\ InLoop
  /\ Status(Task(index + 1)) = pendente
  /\ path_exists(NormPath(expected_path(Task(index + 1))))

\* C1: when the loop reaches a pending task whose expected local path exists, the
\* step sets the task's status to completed and calls no transfer for it; the
\* Transfer Engine is only ever called for the task the loop is at, and the loop
\* never goes back to a task.
C1_ResumeSkipsPresentFile ==
  [][/\ AtPresentPending =>
          /\ pc' = "loop"
          /\ index' = index + 1
          /\ Status(Items(tasks')[index + 1]) = concluido
          /\ transfers' = transfers
     /\ transfers' # transfers =>
          \/ transfers' = <<>>
          \/ (transfers' = Append(transfers, index + 1) /\ ~AtPresentPending)
     /\ index' # index => (index' = index + 1 \/ index' = 0)]_vars

C1_Witness ==
  /\ pc = "loop"
  /\ \E i \in 1..index :
       /\ Status(Items(loop_start.tasks)[i]) = pendente
       /\ Status(Task(i)) = concluido
       /\ i \notin ToSet(transfers)

\* C2: a pass that begins with every task completed calls no transfer and leaves
\* the tasks and the ledger file as they were, so that the file still loads as the
\* same list: every field of every task and the order.
C2_CompletedLedgerUnchanged ==
  AllCompleted(loop_start.tasks) =>
    /\ transfers = <<>>
    /\ tasks = loop_start.tasks
    /\ state_file = loop_start.file
    /\ ~load_state(state_file).raised
    /\ load_state(state_file).value = loop_start.tasks

\* Two passes in a row that began with every task completed.
C2_Witness ==
  /\ pc = "done"
  /\ idle_passes >= 2
  /\ Truthy(tasks)
  /\ AllCompleted(loop_start.tasks)
  /\ state_file.exists

\* C3: every task's status is one of pending, completed, failed and ignored; a
\* successful transfer leaves the completed value the skip rule tests for.
C3_StatusIsOneOfFour ==
  HasTasks =>
    \A i \in 1..Len(Items(tasks)) :
      Status(Task(i)) \in {pendente, concluido, falha, ignorado}

AllFailedBefore(k) == \A j \in 1..(k - 1) : ~attempt_log[j].ok

\* C4: a Transfer Engine call makes at most 3 attempts and none after a success;
\* when attempt k is the first to succeed the result is success with
\* attempts = k and no error.
C4_StopsAtFirstSuccess ==
  /\ Len(attempt_log) <= DOWNLOAD_RETRIES
  /\ AllFailedBefore(Len(attempt_log))
  /\ (pc = "result" /\ attempt_log[Len(attempt_log)].ok) =>
       /\ result.status = sucesso
       /\ result.attempts = Len(attempt_log)
       /\ result.error = PyNone
       /\ result.filepath # PyNone

\* Attempts 1 and 2 failed and attempt 3 succeeded.
C4_Witness ==
  /\ pc = "result"
  /\ Len(attempt_log) = 3
  /\ attempt_log[3].ok
  /\ result.attempts = 3
  /\ result.status = sucesso

\* C5: when all 3 attempts fail the result is failure with attempts = 3, no local
\* path and the error of the third attempt; the delay is slept after every failed
\* attempt but the last, so twice when all fail.
C5_FailureAfterThreeAttempts ==
  /\ pc \in {"attempt", "streaming"} =>
       slept = DOWNLOAD_DELAY_SECONDS * Len(attempt_log)
  /\ pc = "result" =>
       slept = DOWNLOAD_DELAY_SECONDS * (Len(attempt_log) - 1)
  /\ (pc = "result" /\ ~attempt_log[Len(attempt_log)].ok) =>
       /\ Len(attempt_log) = DOWNLOAD_RETRIES
       /\ result.status = falha
       /\ result.attempts = DOWNLOAD_RETRIES
       /\ result.filepath = PyNone
       /\ result.error = attempt_log[DOWNLOAD_RETRIES].error
       /\ \A k \in 1..(DOWNLOAD_RETRIES - 1) : result.error # attempt_log[k].error
       /\ slept = DOWNLOAD_DELAY_SECONDS * 2

C5_Witness ==
  /\ pc = "result"
  /\ result.status = falha
  /\ Len(attempt_log) = 3
  /\ \A k \in 1..3 : ~attempt_log[k].ok

\* A step from the verification on keeps the two files, and makes no archive
\* unless the verdict is success.
AfterVerificationStep ==
  pc \in {"verify", "branch"} =>
    /\ state_file' = state_file
    /\ backlog_file' = backlog_file
    /\ (~is_download_complete' => archives' = archives)

\* C6: create_backup is called in a run only after verify_downloads returned
\* success in that run; when it returned failure the run ends without the call
\* and without an archive, and from the verification on the ledger file and the
\* backlog file stay as the run wrote them.
C6_BackupOnlyAfterVerification ==
  /\ [](backup_calls > 0 => (verified /\ is_download_complete))
  /\ []((pc = "done" /\ verified /\ ~is_download_complete) => backup_calls = 0)
  /\ [][AfterVerificationStep]_vars

\* A run that wrote a backlog, failed the verification and ended.
C6_Witness ==
  /\ pc = "done"
  /\ verified
  /\ ~is_download_complete
  /\ backlog_records # <<>>
  /\ backlog_file.rows = backlog_records
  /\ state_file = FileOf(ledger_bytes(tasks))

\* C7: verify_downloads returns success exactly when every expected path is among
\* the actual ones, whatever else is on disk, and it reports the expected paths
\* that are not; expected a/b.txt and c.txt with actual a/b.txt gives failure
\* with c.txt missing.
C7_VerifyIsSetDifference ==
  h_pc = "returned" =>
    /\ h_out.ok <=> \A q \in ToSet(h_in.expected) : q \in ToSet(h_in.actual)
    /\ h_out.missing = {q \in ToSet(h_in.expected) : q \notin ToSet(h_in.actual)}
    /\ (h_in.expected = <<<<"a", "/", "b", ".", "t", "x", "t">>, <<"c", ".", "t", "x", "t">>>>
        /\ h_in.actual = <<<<"a", "/", "b", ".", "t", "x", "t">>>>) =>
         (~h_out.ok /\ h_out.missing = {<<"c", ".", "t", "x", "t">>})

C7_Witness ==
  /\ h_pc = "returned"
  /\ h_in.expected = <<<<"a", "/", "b", ".", "t", "x", "t">>, <<"c", ".", "t", "x", "t">>>>
  /\ h_in.actual = <<<<"a", "/", "b", ".", "t", "x", "t">>>>
  /\ ~h_out.ok

Kept(i) == Status(Task(i)) \notin {ignorado, falha}

\* C8: the expected paths handed to verify_downloads are the expected local paths
\* (.pdf for a provider document, the relative path otherwise) of the tasks that
\* are neither ignored nor failed when the pass ends, and the path of an ignored
\* or failed task is not among them (unless a kept task expects the same path).
C8_ExpectedPathsOfKeptTasks ==
  verified =>
    /\ ToSet(drive_inventory_paths) =
         {expected_path(Task(i)) : i \in {j \in 1..Len(Items(tasks)) : Kept(j)}}
    /\ \A i \in 1..Len(Items(tasks)) :
         (~Kept(i) /\ expected_path(Task(i)) \in ToSet(drive_inventory_paths)) =>
           \E j \in 1..Len(Items(tasks)) :
             Kept(j) /\ expected_path(Task(j)) = expected_path(Task(i))
    /\ \A i \in 1..Len(Items(tasks)) :
         Kept(i) =>
           \/ /\ has_google_apps(Items(Get(Task(i), K_mimeType)))
              /\ SubSeq(expected_path(Task(i)),
                        Len(expected_path(Task(i))) - Len(PdfExt) + 1,
                        Len(expected_path(Task(i)))) = PdfExt
           \/ /\ ~has_google_apps(Items(Get(Task(i), K_mimeType)))
              /\ expected_path(Task(i)) = Items(Get(Task(i), K_relative_path))

\* A pass that ended with a failed task, an ignored task and a kept document.
C8_Witness ==
  /\ verified
  /\ \E i \in 1..Len(Items(tasks)) : Status(Task(i)) = falha
  /\ \E i \in 1..Len(Items(tasks)) : Status(Task(i)) = ignorado
  /\ \E i \in 1..Len(Items(tasks)) :
       Kept(i) /\ Get(Task(i), K_mimeType) = PyStr(Str(MimeDocument))

\* C9: load_state after save_state(T) returns T (the same tasks in the same
\* order with the same values), and saving the loaded list again leaves the
\* bytes of the file as they were.
C9_LedgerRoundTrip ==
  /\ h_pc \in {"save again", "saved again"} =>
       /\ ~h_out.loaded.raised
       /\ h_out.loaded.value = h_in
  /\ h_pc = "saved again" => state_file = h_out.saved

\* A ledger of two tasks, one with a backslash in a name, saved, loaded and saved.
C9_Witness ==
  /\ h_pc = "saved again"
  /\ Len(Items(h_in)) = 2
  /\ \E i \in 1..2 :
       /\ Has(Items(h_in)[i], K_original_name)
       /\ Backslash \in ToSet(Items(Get(Items(h_in)[i], K_original_name)))
  /\ h_out.loaded.value = h_in

\* The ledger file is one load_state answers None for, if it returns.
Unloadable(file) ==
  \/ ~file.exists
  \/ ~utf8_valid(file.bytes)
  \/ ~json_loads(utf8_decode(file.bytes)).ok

\* C10: load_state never lets an exception out: for a ledger file that is absent,
\* unreadable or malformed it returns None and the run goes on to plan.
C10_LoadNeverPropagates ==
  /\ raised_at # "load_state"
  /\ (pc = "plan" /\ Unloadable(state_file)) => tasks = PyNone

\* The step from the loading of the ledger on keeps a ledger that was loaded, and
\* calls the Walker only when load_state returned None.
LoadedLedgerStep ==
  /\ (pc = "plan" /\ ~Unloadable(state_file)) =>
       /\ walks' = walks
       /\ tasks' = load_state(state_file).value
       /\ state_file' = state_file
  /\ walks' > walks => (pc = "plan" /\ tasks = PyNone)

\* C11: when a readable, well-formed ledger file exists at the start of a run, the
\* run goes on with exactly the list loaded from it and never calls the Walker;
\* the Walker is called only when load_state returned None.
C11_LoadedLedgerIsNeverWalked == [][LoadedLedgerStep]_vars

\* The ledger files a save that the run at hand can be in would complete with.
SavedBy(file) ==
  {save_state(file, tasks)} \cup
  {save_state(file, PyList(get_drive_file_inventory(drive_service(failing), Str(RootFolder), <<>>))) :
     failing \in SUBSET ListingRequests}

\* The kill of a process leaves the ledger file as it was or as the save would
\* have left it.
KilledInSaveStep ==
  pc' = "crashed" => (state_file' = state_file \/ state_file' \in SavedBy(state_file))

\* C12: when the process is killed at any point of save_state, between the
\* opening of the file for writing and the end of the write included, the ledger
\* file holds the whole previous content or the whole new content, never an
\* empty, cut or mixed one.
C12_SaveIsAllOrNothing == [][KilledInSaveStep]_vars

\* C13: for every name whose cleaned form (whitespace collapsed, forbidden
\* characters replaced) is longer than 150 characters, whatever the lengths of its
\* root and of its extension, the sanitized name has at most 150 characters, and
\* a second call on the same name returns the same string.
C13_LongNamesAreCutToMaxLen ==
  Len(cleanup(h_in)) > max_len =>
    /\ h_pc \in {"returned", "returned again"} => Len(h_out.once) <= max_len
    /\ h_pc = "returned again" => h_out.twice = h_out.once

\* C14: for every name whose sanitized output has at most 150 characters,
\* sanitizing the output again returns it unchanged; and for every name whose
\* cleaned form has at most 150 characters the output is the cleaned form itself,
\* of the same length, with no hash suffix.
C14_SafeNamesAreFixedPoints ==
  /\ (h_pc = "returned again" /\ Len(h_out.once) <= max_len) =>
       h_out.again = h_out.once
  /\ (h_pc \in {"returned", "returned again"} /\ Len(cleanup(h_in)) <= max_len) =>
       /\ h_out.once = cleanup(h_in)
       /\ Len(h_out.once) = Len(cleanup(h_in))
       /\ LET root == splitext(h_out.once)[1]
          IN  Len(root) > HashLen =>
                SubSeq(root, Len(root) - HashLen, Len(root))
                  # <<"_">> \o hash_suffix(h_in)

\* A name that the cleaning changes into one of exactly max_len characters, and
\* whose output was sanitized again.
C14_Witness ==
  /\ h_pc = "returned again"
  /\ Len(cleanup(h_in)) = max_len
  /\ cleanup(h_in) # h_in
  /\ h_out.once = cleanup(h_in)
  /\ h_out.again = h_out.once

MaxDepth == 3

IsFolder(item) == item.mimeType = Str(MimeFolder)

\* The items a folder holds, on any of its pages.
ChildrenOf(pages, folder_id) ==
  IF folder_id \in DOMAIN pages
  THEN UNION {ToSet(pages[folder_id][k]) : k \in 1..Len(pages[folder_id])}
  ELSE {}

\* The ways down from the root to a non-folder item: folder, ..., folder, item.
Chains(pages) ==
  {c \in ListsUpTo(UNION {ChildrenOf(pages, f) : f \in DOMAIN pages}, MaxDepth) :
     /\ c # <<>>
     /\ c[1] \in ChildrenOf(pages, Str(RootFolder))
     /\ ~IsFolder(c[Len(c)])
     /\ \A k \in 1..(Len(c) - 1) :
          IsFolder(c[k]) /\ c[k + 1] \in ChildrenOf(pages, c[k].id)}

\* The sanitized names of the items of the chain, with a '/' between two of them.
SlashJoined(c) ==
  Flatten([k \in 1..Len(c) |->
             IF k = 1 THEN sanitize_path_component(c[k].name)
             ELSE <<AltSep>> \o sanitize_path_component(c[k].name)])

\* C15: when no listing request raises, the Walker returns exactly one entry for
\* every non-folder item that can be reached from the root, through any depth
\* of folders and any number of pages per folder, no entry for a folder, and
\* the relative_path of an entry is made of the sanitized names of its
\* ancestors below the root and its own, joined by '/'.
C15_WalkListsEveryFileOnce ==
  (h_pc = "returned" /\ h_in.failing = {}) =>
    /\ Len(h_out) = Cardinality(Chains(h_in.pages))
    /\ \A k \in 1..Len(h_out) : Get(h_out[k], K_mimeType) # PyStr(Str(MimeFolder))
    /\ \A c \in Chains(h_in.pages) :
         Cardinality({k \in 1..Len(h_out) :
                        /\ Get(h_out[k], K_id) = PyStr(c[Len(c)].id)
                        /\ Get(h_out[k], K_relative_path) = PyStr(SlashJoined(c))}) = 1

\* The tree in which every folder with a raising request lists nothing at all.
WithoutFailingFolders(service) ==
  [f \in DOMAIN service.pages |->
     IF \E k \in 1..Len(service.pages[f]) : <<f, k>> \in service.failing
     THEN <<>>
     ELSE service.pages[f]]

\* C16: when the listing of a folder raises on any of its pages, the walk of that
\* folder adds no entry to the inventory, neither from its earlier pages nor from
\* the sub-folders it had already gone into, while the entries of the other
\* subtrees are kept and the Walker returns normally: the inventory is the one of
\* the tree with the failing folders empty.
C16_FailingFolderAddsNothing ==
  h_pc = "returned" =>
    h_out = get_drive_file_inventory(Service(WithoutFailingFolders(h_in), {}),
                                     Str(RootFolder), <<>>)

\* The task is of a type of the ignore-list.
IgnoredType(task) == Get(task, K_mimeType) \in {PyStr(m) : m \in ignored_mime_types}

\* C17: an item whose type is in the ignore-list is emitted by the Walker (the
\* shortcut of the tree is in the tasks whenever the document listed on the same
\* page is) with status ignored; in every pass of every run the task is never handed to the
\* Transfer Engine, its status stays ignored, and its path is not among the
\* paths the Verifier expects.
C17_IgnoredStaysIgnored ==
  /\ (HasTasks /\ \E i \in 1..Len(Items(tasks)) : Get(Task(i), K_id) = PyStr(Str("2"))) =>
       \E i \in 1..Len(Items(tasks)) :
         Get(Task(i), K_id) = PyStr(Str("3")) /\ IgnoredType(Task(i))
  /\ HasTasks =>
       \A i \in 1..Len(Items(tasks)) :
         IgnoredType(Task(i)) =>
           /\ Status(Task(i)) = ignorado
           /\ i \notin ToSet(transfers)
           /\ expected_path(Task(i)) \notin ToSet(drive_inventory_paths)

\* A later run, with an ignored task in the ledger, that has passed over all its
\* tasks, transferred one of them and verified.
C17_Witness ==
  /\ run >= 2
  /\ pc = "done"
  /\ verified
  /\ transfers # <<>>
  /\ drive_inventory_paths # <<>>
  /\ \E i \in 1..Len(Items(tasks)) : IgnoredType(Task(i)) /\ Status(Task(i)) = ignorado

TransferFailed == pc = "result" /\ result.status = falha

\* The pass over the tasks is over (the save after the last task was made).
PassEnded == pc \in {"backlog", "verify", "branch"} \/ (pc = "done" /\ verified)

\* The step after a transfer that failed: the task is failed, a record of the
\* failure is added to the backlog, and the loop goes on with the next task.
FailedTransferStep ==
  TransferFailed =>
    /\ pc' = "loop"
    /\ index' = index + 1
    /\ Status(Items(tasks')[index + 1]) = falha
    /\ Len(backlog_records') = Len(backlog_records) + 1
    /\ LET record == backlog_records'[Len(backlog_records')]
       IN  /\ record.status = PyStr(Str("FALHA"))
           /\ record.drive_id = Get(Task(index + 1), K_id)
           /\ record.attempts = DOWNLOAD_RETRIES
           /\ record.error_message = result.error

\* The positions of a run inside the pass over the tasks.
InPass == pc \in {"loop", "attempt", "streaming", "result"}

\* A step taken inside the pass stays in the pass, at the same task or at the
\* next one, or leaves it by the save that follows the last task.
PassStep ==
  InPass =>
    /\ pc' \in {"loop", "attempt", "streaming", "result", "backlog"}
    /\ index' \in {index, index + 1}
    /\ pc' = "backlog" => index = Len(Items(tasks))

\* C18: a transfer that fails all its attempts never ends the run: the task gets
\* status failed and a backlog record, the loop goes on with the later tasks in
\* ledger order and leaves the pass only after the last one, and when the pass
\* has ended no task is pending any more.
C18_FailureNeverAbortsTheRun ==
  /\ [][FailedTransferStep]_vars
  /\ [][PassStep]_vars
  /\ []((\E k \in 1..Len(backlog_records) :
           backlog_records[k].status = PyStr(Str("FALHA")))
        => pc \notin {"aborted", "raised"})
  /\ [](PassEnded =>
          /\ index = Len(Items(tasks))
          /\ \A i \in 1..Len(Items(tasks)) : Status(Task(i)) # pendente)

\* The first task failed, a later one was transferred after it, the pass ended.
C18_Witness ==
  /\ PassEnded
  /\ Len(transfers) >= 2
  /\ Status(Task(transfers[1])) = falha
  /\ Status(Task(transfers[2])) = sucesso
  /\ Len(backlog_records) = 2

Absent == <<"absent">>

\* What is on disk at the path the task's file is expected at.
OnDisk(task) ==
  LET p == NormPath(expected_path(task))
  IN  IF p \in DOMAIN files THEN files[p] ELSE Absent

\* A task is handed to the Transfer Engine in this step.
TransferStarts == transfers' # transfers /\ transfers' # <<>>

\* C19: in a run made after a kill, a visited task that the ledger of the run
\* listed as pending was either transferred by this run, or it was marked
\* completed without a transfer and its file on disk is whole; and no task whose
\* file is on disk is handed to the Transfer Engine.
C19_RerunRedoesOnlyUnfinishedWork ==
  /\ []((crashes > 0 /\ pc = "loop") =>
          \A i \in 1..index :
            Status(Items(loop_start.tasks)[i]) = pendente =>
              \/ i \in ToSet(transfers)
              \/ /\ Status(Task(i)) = concluido
                 /\ OnDisk(Task(i)) \in {Complete(Items(Get(Task(i), K_id))), Other})
  /\ [][(crashes > 0 /\ TransferStarts) => OnDisk(Task(index + 1)) = Absent]_vars

\* The place of a position in the order of main's steps.
Rank(p) ==
  CASE p = "setup" -> 1
    [] p = "load" -> 2
    [] p = "plan" -> 3
    [] p = "mkdirs" -> 4
    [] p \in {"loop", "attempt", "streaming", "result"} -> 5
    [] p = "backlog" -> 6
    [] p = "verify" -> 7
    [] p = "branch" -> 8
    [] OTHER -> 9

\* A step of a run that is under way and that the step does not end by an exception.
OrderedStep ==
  (pc \notin Ended /\ pc' \notin {"aborted", "raised"}) =>
    \* the positions follow one another, none is left out and none comes back
    /\ pc' # pc =>
         \/ Rank(pc') = Rank(pc) + 1
         \/ Rank(pc') = Rank(pc) /\ InPass
         \/ pc = "mkdirs" /\ structure_only /\ pc' = "done"
    \* the walk is made at the plan only, for no loaded tasks, with the save
    /\ walks' # walks =>
         /\ pc = "plan"
         /\ ~Truthy(tasks)
         /\ walks' = walks + 1
         /\ state_file' = save_state(state_file, tasks')
    \* the ledger file is written with the walk and after the last task only
    /\ state_file' # state_file =>
         \/ pc = "plan" /\ walks' = walks + 1
         \/ pc = "loop" /\ index = Len(Items(tasks)) /\ pc' = "backlog"
    \* the tasks are taken one at a time, in the order of the ledger
    /\ InPass =>
         /\ index' \in {index, index + 1}
         /\ transfers' # transfers => transfers' = Append(transfers, index + 1)
         /\ tasks' # tasks => index' = index + 1 /\ Len(Items(tasks')) = Len(Items(tasks))
    \* the pass is left after the last task, by the save of all the tasks
    /\ (InPass /\ pc' = "backlog") =>
         /\ pc = "loop"
         /\ index = Len(Items(tasks))
         /\ state_file' = save_state(state_file, tasks)
    \* then the backlog, the verification and the backup, each at its place
    /\ backlog_file' # backlog_file =>
         pc = "backlog" /\ backlog_file'.rows = backlog_records
    /\ verified' # verified => pc = "verify" /\ verified'
    /\ backup_calls' # backup_calls =>
         pc = "branch" /\ verified /\ pc' = "done" /\ backup_calls' = 1

\* C20: in a run that reaches the transfer phase the steps come in this order:
\* the ledger is loaded, or else the walk is made and saved once; the tasks are
\* processed one at a time in ledger order with no ledger write between two of
\* them; the ledger is saved once after the last task; the backlog is written;
\* the verifier runs; the backup comes last.
C20_StepsOfARunAreInOrder ==
  /\ [][OrderedStep]_vars
  /\ [](pc \in {"backlog", "verify", "branch"} => state_file = save_state(state_file, tasks))

\* A run that walked, transferred two tasks, wrote the backlog, verified and
\* made the backup.
C20_Witness ==
  /\ pc = "done"
  /\ walks = 1
  /\ Len(transfers) >= 2
  /\ backlog_file.exists /\ backlog_file.rows = backlog_records
  /\ verified
  /\ backup_calls = 1

\* A transfer ends with success in this step.
TransferSucceeds == pc = "streaming" /\ pc' = "result" /\ result'.status = sucesso

\* The file a successful transfer leaves is the task's whole file, at the path
\* main expects it at, and it is the path the result names.
WrittenAtExpectedPathStep ==
  TransferSucceeds =>
    LET task == Task(index + 1)
        p    == NormPath(expected_path(task))
    IN  /\ files' = WriteFile(p, Complete(Items(Get(task, K_id))))
        /\ NormPath(Items(result'.filepath)) = p

\* The first run walked, no task was passed over for a file already there, and
\* every task that is not ignored was transferred with success.
FreshRunAllSucceeded ==
  /\ run = 1
  /\ walks = 1
  /\ Len(Items(tasks)) >= 2
  /\ \A i \in 1..Len(Items(tasks)) :
       \/ Status(Task(i)) = ignorado
       \/ Status(Task(i)) = sucesso /\ i \in ToSet(transfers)

\* Nobody took a transferred file away.
TransferredFilesKept ==
  \A i \in ToSet(transfers) : OnDisk(Task(i)) # Absent

\* C21: in a first run over a freshly walked inventory of plain and document
\* entries under nested folders, with no file there before, when every transfer
\* succeeds each file is written at exactly the expected local path of its task
\* (the .pdf path for a document), the verifier answers success and the backup
\* is made exactly once.
C21_FreshRunEndsVerifiedAndBackedUp ==
  /\ [][WrittenAtExpectedPathStep]_vars
  /\ []((pc \in {"branch", "done"} /\ verified /\ FreshRunAllSucceeded
         /\ TransferredFilesKept) =>
          /\ is_download_complete
          /\ missing_files = {}
          /\ \A i \in ToSet(transfers) :
               OnDisk(Task(i)) = Complete(Items(Get(Task(i), K_id)))
          /\ backup_calls = IF pc = "done" THEN 1 ELSE 0)

\* The run of the scenario at its end: a plain file in a folder and a document
\* were transferred, the verdict is success and the backup was made.
C21_Witness ==
  /\ pc = "done"
  /\ verified
  /\ FreshRunAllSucceeded
  /\ TransferredFilesKept
  /\ \E i, j \in ToSet(transfers) :
       /\ has_google_apps(Items(Get(Task(i), K_mimeType)))
       /\ ~has_google_apps(Items(Get(Task(j), K_mimeType)))
       /\ dirname(expected_path(Task(j))) # <<>>
  /\ backup_calls = 1

\* The step in which the construction of the service fails.
SetupFailsStep ==
  (pc = "setup" /\ pc' = "aborted") => UNCHANGED <<persistent, memory, history>>

\* C22: when the construction of the remote service fails the run ends at once
\* and nothing of the pipeline was touched: the ledger was neither loaded nor
\* saved, the walker and the transfer engine were never called, no download
\* directory was made, and no backlog, verification or backup step ran.
C22_FailedSetupTouchesNothing ==
  /\ [][SetupFailsStep]_vars
  /\ [](pc = "aborted" =>
          /\ tasks = PyNone
          /\ walks = 0
          /\ transfers = <<>>
          /\ attempt_log = <<>>
          /\ backlog_records = <<>>
          /\ ~verified
          /\ backup_calls = 0
          /\ loop_start.file = NoFile)

\* A later run aborted at the setup, with the ledger of an earlier run on disk.
C22_Witness ==
  /\ pc = "aborted"
  /\ run >= 2
  /\ state_file.exists
  /\ state_file \notin ForeignLedgers

\* The folders of the tasks of the run.
TaskFolders ==
  {dirname(Items(Get(Task(i), K_relative_path))) : i \in 1..Len(Items(tasks))} \ {<<>>}

\* The last step of a run with the structure-only flag: the folders are made
\* and nothing else changes.
StructureOnlyStep ==
  (pc = "mkdirs" /\ structure_only) =>
    /\ pc' = "done"
    /\ TaskFolders \subseteq dirs'
    /\ UNCHANGED <<state_file, backlog_file, files, archives, memory, history>>

\* C23: with the structure-only flag the run makes the local directory tree and
\* ends: the transfer engine was never called, no task status changed, no
\* backlog was written, and neither the verifier nor the backup ran.
C23_StructureOnlyMakesFoldersOnly ==
  /\ [][StructureOnlyStep]_vars
  /\ []((structure_only /\ pc \notin Ended \cup {"setup", "load", "plan"}) =>
          pc = "mkdirs")
  /\ []((structure_only /\ pc = "done") =>
          /\ TaskFolders \subseteq dirs
          /\ transfers = <<>>
          /\ attempt_log = <<>>
          /\ backlog_records = <<>>
          /\ index = 0
          /\ ~verified
          /\ backup_calls = 0
          /\ state_file = save_state(state_file, tasks))

\* A structure-only run over a ledger with a pending task in a folder has ended:
\* the folder is there, the file is not.
C23_Witness ==
  /\ pc = "done"
  /\ structure_only
  /\ \E i \in 1..Len(Items(tasks)) :
       /\ Status(Task(i)) = pendente
       /\ dirname(Items(Get(Task(i), K_relative_path))) \in dirs \ {<<>>}
       /\ OnDisk(Task(i)) = Absent

\* The task's name was changed by the sanitizer: an original name is recorded
\* and it is not the sanitized one.
WasRenamed(task) ==
  Has(task, K_original_name) /\ Get(task, K_original_name) # Get(task, K_safe_name)

\* A record is appended only at the end of a call of the Transfer Engine, with
\* the outcome and the number of attempts of that call; a step of the loop that
\* passes over a task appends none.
RecordStep ==
  /\ (pc \notin Ended /\ backlog_records' # backlog_records) =>
       /\ pc = "result"
       /\ Len(backlog_records') = Len(backlog_records) + 1
       /\ SubSeq(backlog_records', 1, Len(backlog_records)) = backlog_records
       /\ LET record == backlog_records'[Len(backlog_records')]
          IN  /\ record.status = upper(result.status)
              /\ record.attempts = Len(attempt_log)
              /\ record.error_message = result.error
  /\ (pc = "result" /\ pc' # pc) => Len(backlog_records') = Len(backlog_records) + 1
  /\ (pc = "loop" /\ index' = index + 1) => backlog_records' = backlog_records

\* C24: in a pass one backlog record is appended for each call of the Transfer
\* Engine and none for a task that is passed over; the record holds the outcome
\* and the attempt count of that call, and its rename flag is set exactly when
\* the task's original name is not its sanitized name.
C24_OneRecordPerTransfer ==
  /\ [][RecordStep]_vars
  /\ [](Len(backlog_records) =
          Len(transfers) - (IF pc \in {"attempt", "streaming", "result"} THEN 1 ELSE 0))
  /\ [](\A k \in 1..Len(backlog_records) :
          LET record == backlog_records[k]
              task   == Task(transfers[k])
          IN  /\ record.drive_id = Get(task, K_id)
              /\ record.status = upper(Status(task))
              /\ record.status \in {PyStr(Str("SUCESSO")), PyStr(Str("FALHA"))}
              /\ record.attempts \in 1..DOWNLOAD_RETRIES
              /\ record.status = PyStr(Str("FALHA")) => record.attempts = DOWNLOAD_RETRIES
              /\ record.was_renamed \in {"Sim", "Não"}
              /\ record.was_renamed = "Sim" <=> WasRenamed(task))

\* A pass over three tasks has ended: one was passed over, two were transferred,
\* one of them renamed and one not, one at the first attempt and one not.
C24_Witness ==
  /\ PassEnded
  /\ Len(Items(tasks)) = 3
  /\ Len(backlog_records) = 2
  /\ backlog_records[1].was_renamed # backlog_records[2].was_renamed
  /\ backlog_records[1].attempts # backlog_records[2].attempts

\* The tasks of the ledger file as load_state reads them.
OnLedger == load_state(state_file).value

\* A step of a run changes the status of no task that is not pending, and hands
\* no such task to the Transfer Engine.
SettledStatusStep ==
  (pc \notin Ended /\ IsList(tasks) /\ IsList(tasks')) =>
    /\ \A i \in 1..Len(Items(tasks)) :
         Status(Task(i)) # pendente =>
           /\ i <= Len(Items(tasks'))
           /\ Status(Items(tasks')[i]) = Status(Task(i))
    /\ TransferStarts => Status(Task(index + 1)) = pendente

\* C25: a task whose status in the ledger is not pending (completed, ignored,
\* failed, or the status a successful transfer writes) keeps that status in
\* every pass of a run that loads the ledger, and is never handed to the
\* Transfer Engine; a task that failed in one run is not tried again.
C25_SettledTasksAreLeftAlone ==
  /\ [][SettledStatusStep]_vars
  /\ []((InPass /\ walks = 0) =>
          LET loaded == Items(OnLedger)
          IN  /\ Len(loaded) = Len(Items(tasks))
              /\ \A i \in 1..Len(loaded) :
                    Status(loaded[i]) # pendente =>
                      /\ Status(Task(i)) = Status(loaded[i])
                      /\ i \notin ToSet(transfers))

\* A later run that loaded a ledger with a failed and a transferred task has
\* passed over them.
C25_Witness ==
  /\ run >= 2
  /\ walks = 0
  /\ pc = "loop"
  /\ index = Len(Items(tasks))
  /\ transfers = <<>>
  /\ LET loaded == Items(OnLedger)
     IN  \E i, j \in 1..index :
           Status(loaded[i]) = falha /\ Status(loaded[j]) = sucesso

\* The step in which the skip rule sets a pending task to completed.
SkipCompletes ==
  /\ pc = "loop" /\ pc' = "loop"
  /\ index' = index + 1
  /\ Status(Task(index + 1)) = pendente
  /\ Status(Items(tasks')[index + 1]) = concluido

\* C26: the skip rule sets a pending task to completed only when what is at its
\* expected path is not a file that a transfer left unfinished, be it by a
\* failed attempt or by a kill of the process in the middle of a transfer.
C26_PartialFileIsNeverTakenAsDone ==
  [][SkipCompletes => OnDisk(Task(index + 1))[1] # "partial"]_vars

\* How many times the task was handed to the Transfer Engine in this run.
TimesTransferred(i) == Cardinality({k \in 1..Len(transfers) : transfers[k] = i})

\* C27: in a pass of a first run, made with no downloads directory yet and with
\* every task of the ledger pending or ignored, every task that is not ignored
\* was handed to the Transfer Engine exactly once when the pass has ended, also
\* when two tasks are expected at the same local path.
C27_EveryPendingTaskIsTransferredOnce ==
  (/\ run = 1
   /\ PassEnded
   /\ \A i \in 1..Len(Items(loop_start.tasks)) :
        Status(Items(loop_start.tasks)[i]) \in {pendente, ignorado})
  => \A i \in 1..Len(Items(tasks)) :
       TimesTransferred(i) = IF Status(Items(loop_start.tasks)[i]) = ignorado THEN 0 ELSE 1

\* Every task that is neither ignored nor failed has a file at its expected path.
KeptFilesPresent ==
  \A i \in 1..Len(Items(tasks)) :
    Status(Task(i)) \notin {ignorado, falha} => OnDisk(Task(i)) # Absent

\* The last step of a run that verified: the backup is called exactly when the
\* files of the tasks that are neither ignored nor failed are all there.
BackupDecisionStep ==
  (pc = "branch" /\ pc' = "done") =>
    /\ backup_calls' = (IF KeptFilesPresent THEN 1 ELSE 0)
    /\ is_download_complete <=> KeptFilesPresent

\* C28, as the claim states it: the backup is called at the end of a run only
\* if no task of the ledger has the status failed.
C28_NoBackupWithFailedTask ==
  (pc = "done" /\ backup_calls > 0) =>
    \A i \in 1..Len(Items(tasks)) : Status(Task(i)) # falha

\* C28, amended: the backup is called at the end of a run only if every task
\* that is neither ignored nor failed has its file at its expected path when
\* the verifier runs; failed tasks are left out of the expected paths, so a run
\* in which a transfer used up its attempts calls the backup when the files of
\* all other tasks are there.
C28_BackupCountsOnlyKeptTasks ==
  [][BackupDecisionStep]_vars

\* A run in which a transfer failed all its attempts has ended with the backup made.
C28_Witness ==
  /\ pc = "done"
  /\ backup_calls = 1
  /\ \E i \in ToSet(transfers) : Status(Task(i)) = falha
  /\ \E j \in 1..Len(Items(tasks)) : Status(Task(j)) \notin {ignorado, falha}

====
